---- MODULE Spec2Model ----
(***************************************************************************)
(* Prompt Battle server: the room registry (roomManager.js), the round     *)
(* orchestration and the prompt gate (gameLogic.js) and the socket         *)
(* handlers that drive them (index.js).                                    *)
(*                                                                         *)
(* Node runs every handler, timer callback and promise continuation to     *)
(* completion before the next one starts.  One action of this module is    *)
(* one such run.  A run that assigns room.state twice is cut at the second *)
(* assignment, and the variable `running` then names the orchestration     *)
(* that holds the thread: no other action is enabled until it lets go.     *)
(***************************************************************************)
EXTENDS Integers, Sequences, FiniteSets, TLC

(* ------------------------------ bounds -------------------------------- *)
\* connections (socket ids) that ever exist
NumSockets == 3
\* connections that send requests while a game is played
NumClients == 2
\* room codes generateRoomCode can draw
NumCodes == 2
\* createRoom calls in one run
MaxRooms == 2
\* largest config.rounds a creator sends
MaxRounds == 2
\* startGame calls in one run
MaxStarts == 2

Sockets == 1..NumSockets
Clients == 1..NumClients

(* --------------------------- program constants ------------------------ *)
\* process.env.MAX_PLAYERS_PER_ROOM, which the server reads on every join
\* (default '6'); the model runs the server with the capacity set to 2
MAX_PLAYERS == 2
\* config.rounds || 3
DefaultRounds == 3
\* the number of characters generateRoomCode draws
CODE_LENGTH == 6

\* GAME_STATES of shared/constants.js
WAITING == "waiting"
STARTING == "starting"
SHOWING_IMAGE == "showing_image"
WRITING_PROMPT == "writing_prompt"
GENERATING_IMAGES == "generating_images"
VOTING == "voting"
SHOWING_RESULTS == "showing_results"
GAME_OVER == "game_over"
GAME_STATES ==
  {WAITING, STARTING, SHOWING_IMAGE, WRITING_PROMPT, GENERATING_IMAGES,
   VOTING, SHOWING_RESULTS, GAME_OVER}

\* the categories generateOriginalImage is called with
CATEGORIES == {"objetos"}

(* ------------------------------ strings ------------------------------- *)
\* A JavaScript string is a sequence of one-character strings.
EmptyStr == << >>

\* what a JavaScript lookup yields for a missing entry, and null
Undefined == << "undefined" >>
NullStr == << "null" >>

WordChars ==
  {"a", "b", "c", "d", "e", "f", "g", "h", "i", "j", "k", "l", "m", "n", "o",
   "p", "q", "r", "s", "t", "u", "v", "w", "x", "y", "z", "A", "_",
   "0", "1", "2", "3", "4", "5", "6", "7", "8", "9"}

\* String.prototype.toLowerCase on the characters the model uses
LowerChar(c) == IF c = "A" THEN "a" ELSE c

toLowerCase(s) == [i \in 1..Len(s) |-> LowerChar(s[i])]

\* s.split(/\W+/): the pieces between maximal runs of non-word characters; a
\* run at either end of the string leaves an empty piece there
RECURSIVE SplitFrom(_, _, _, _)
SplitFrom(s, i, cur, inSep) ==
  IF i > Len(s) THEN << cur >>
  ELSE IF s[i] \in WordChars THEN SplitFrom(s, i + 1, Append(cur, s[i]), FALSE)
  ELSE IF inSep THEN SplitFrom(s, i + 1, cur, TRUE)
  ELSE << cur >> \o SplitFrom(s, i + 1, << >>, TRUE)

splitWords(s) == SplitFrom(s, 1, << >>, FALSE)

Max(a, b) == IF a >= b THEN a ELSE b

\* a rounding that drops the fraction
RoundDown(num, den) == num \div den

\* Math.round(x) for x = num / den >= 0: the nearest integer, halves up
RoundDiv(num, den) == (2 * num + den) \div (2 * den)

\* calculateSimilarity(a, b); !a is true of the empty string, of undefined
\* and of null
calculateSimilarity(a, b) ==
  IF a \in {EmptyStr, Undefined, NullStr} \/ b \in {EmptyStr, Undefined, NullStr}
  THEN 0
  ELSE LET wordsA == splitWords(toLowerCase(a))
           wordsB == splitWords(toLowerCase(b))
           setA == {wordsA[i] : i \in 1..Len(wordsA)}
           overlap == Cardinality({i \in 1..Len(wordsB) : wordsB[i] \in setA})
           maxWords == Max(Len(wordsA), Len(wordsB))
       IN RoundDiv(overlap * 100, maxWords)

\* generateOriginalImage: `A detailed ${category} scene generated for a
\* prompt battle game.`  ("fantastico" stands for the catalog's accented
\* word, whose accented letter is a non-word character for /\W+/)
CategoryText(category) ==
  IF category = "objetos" THEN << "o", "b", "j", "e", "t", "o", "s" >>
  ELSE << "f", "a", "n", "t", "!", "s", "t", "i", "c", "o" >>

OriginalPrompt(category) ==
  << "A", " ", "d", "e", "t", "a", "i", "l", "e", "d", " " >>
  \o CategoryText(category)
  \o << " ", "s", "c", "e", "n", "e", " ", "g", "e", "n", "e", "r", "a", "t",
        "e", "d", " ", "f", "o", "r", " ", "a", " ", "p", "r", "o", "m", "p",
        "t", " ", "b", "a", "t", "t", "l", "e", " ", "g", "a", "m", "e", "." >>

\* the prompt texts a client submits
ScenePrompt == << "a", " ", "s", "c", "e", "n", "e" >>

PromptTexts == {EmptyStr, ScenePrompt}

\* texts calculateSimilarity is called with on its own
CatSatText == << "a", " ", "c", "a", "t", " ", "s", "a", "t" >>
CatText == << "a", " ", "c", "a", "t" >>
UpperCatText == << "A", " ", "c", "a", "t" >>
CatCatText == << "c", "a", "t", ",", " ", "c", "a", "t" >>
SatStopText == << "s", "a", "t", "." >>
CommaText == << ",", " " >>

SimTexts ==
  {Undefined, EmptyStr, CatSatText, CatText, UpperCatText, CatCatText,
   SatStopText, CommaText, ScenePrompt, OriginalPrompt("objetos")}

\* calculateSimilarity on the texts of the model, computed once
Similarity ==
  [original \in {OriginalPrompt(c) : c \in CATEGORIES}, text \in PromptTexts |->
     calculateSimilarity(original, text)]

(* ----------------------------- room codes ----------------------------- *)
\* const chars = 'ABCDEFGHIJKLMNOPQRSTUVWXYZ0123456789'
CodeChars ==
  << "A", "B", "C", "D", "E", "F", "G", "H", "I", "J", "K", "L", "M", "N", "O",
     "P", "Q", "R", "S", "T", "U", "V", "W", "X", "Y", "Z",
     "0", "1", "2", "3", "4", "5", "6", "7", "8", "9" >>

\* generateRoomCode(), given the index Math.floor(Math.random() * chars.length)
\* of each of its draws (counted from 1)
generateRoomCode(draws) == [i \in 1..CODE_LENGTH |-> CodeChars[draws[i]]]

\* the k-th outcome of the draws the model lets Math.random take
Draws(k) == [i \in 1..CODE_LENGTH |-> IF i = CODE_LENGTH THEN k ELSE 1]

\* the codes generateRoomCode returns in the model, and the first of them
Codes == {generateRoomCode(Draws(k)) : k \in 1..NumCodes}

FirstCode == generateRoomCode(Draws(1))

(* ------------------------------- state -------------------------------- *)
VARIABLES
  connected,  \* the sockets whose 'disconnect' has not been handled
  rooms,      \* roomManager.rooms: code -> room, in insertion order
  room,       \* the room objects ever built, by identity (oldest first)
  orch,       \* the startGame invocations ever made (oldest first)
  timers,     \* the setTimeout calls that have not fired, oldest first
  running,    \* the orchestration that holds the thread, or 0
  reply,      \* the callback this run invoked, or NoReply
  joined,     \* Socket.IO rooms: code -> the sockets socket.join(code) put there
  simCall     \* a call of calculateSimilarity on its own: arguments and result

vars ==
  << connected, rooms, room, orch, timers, running, reply, joined, simCall >>

\* a roundData mapping without the key, a null image, a stored image
NoEntry == "none"
Null == "null"
Image == "image"
NoScore == -1
NoGate == << >>
NoReply == [ev |-> "none", success |-> FALSE, message |-> ""]
NoCall == [a |-> EmptyStr, b |-> EmptyStr, out |-> NoScore]

\* io.in(code).emit(event, payload): the event, the Socket.IO room it goes to,
\* the state of a 'game-state' payload and the round startGame is in (0
\* outside the loop)
Notice(event, code, state, round) ==
  [event |-> event, code |-> code, state |-> state, round |-> round]

GameState(code, state, round) == Notice("game-state", code, state, round)

\* `if (prompt)`: neither undefined nor the empty string
Truthy(p) == p # Undefined /\ p # EmptyStr

Range(seq) == {seq[i] : i \in 1..Len(seq)}

RoomIds == 1..Len(room)
OrchIds == 1..Len(orch)

\* roomManager.rooms.has(code)
HasCode(code) == \E i \in 1..Len(rooms) : rooms[i].code = code

\* getRoom(roomCode): the room object's identity, or 0 for null
getRoom(code) ==
  IF HasCode(code)
  THEN LET i == CHOOSE j \in 1..Len(rooms) : rooms[j].code = code
       IN rooms[i].rid
  ELSE 0

\* room.players.has(socketId), on a given collection of room objects
HasPlayer(rm, r, s) == s \in Range(rm[r].players)

\* getRoomByPlayer(socketId): the first registered room that holds the
\* player, or 0 for null
getRoomByPlayer(s) ==
  IF \E i \in 1..Len(rooms) : HasPlayer(room, rooms[i].rid, s)
  THEN LET i == CHOOSE j \in 1..Len(rooms) :
                  /\ HasPlayer(room, rooms[j].rid, s)
                  /\ \A k \in 1..(j - 1) : ~HasPlayer(room, rooms[k].rid, s)
       IN rooms[i].rid
  ELSE 0

\* the roundData = {} a new room carries: it has no prompts mapping yet
EmptyRoundData ==
  [set |-> FALSE,
   originalPrompt |-> NullStr,
   prompts |-> [s \in Sockets |-> Undefined],
   images |-> [s \in Sockets |-> NoEntry],
   scores |-> [s \in Sockets |-> NoScore]]

\* the roundData startGame assigns at the top of every round
FreshRoundData == [EmptyRoundData EXCEPT !.set = TRUE]

\* config.rounds || 3
RoundsOf(n) == IF n = 0 THEN DefaultRounds ELSE n

\* the room object createRoom builds; players is the Map's key order and
\* score the score field of each player object (0 where there is none)
NewRoom(code, s, n) ==
  [code |-> code,
   host |-> s,
   rounds |-> RoundsOf(n),
   players |-> << s >>,
   score |-> [x \in Sockets |-> 0],
   state |-> WAITING,
   currentRound |-> 0,
   roundData |-> EmptyRoundData,
   resolver |-> NoGate]

Init ==
  /\ connected = Sockets
  /\ rooms = << >>
  /\ room = << >>
  /\ orch = << >>
  /\ timers = << >>
  /\ running = 0
  /\ reply = NoReply
  /\ joined = [code \in Codes |-> {}]
  /\ simCall = NoCall

(* ------------------------------ registry ------------------------------ *)
\* a createRoom that keeps the first code it draws
AnyCode(code) == TRUE

\* do { code = generateRoomCode(); } while (rooms.has(code)): the loop is
\* left with a code no registered room has
FreeCode(code) == ~HasCode(code)

\* 'create-room' handler -> createRoom(config, socket), with the code its
\* loop ends on; the creator is the only player and the host
CreateRoom(s, n, code) ==
  /\ running = 0
  /\ s \in connected
  /\ FreeCode(code)
  /\ room' = Append(room, NewRoom(code, s, n))
  /\ rooms' = Append(rooms, [code |-> code, rid |-> Len(room) + 1])
  /\ joined' = [joined EXCEPT ![code] = @ \cup {s}]
  /\ reply' = [ev |-> "create-room", success |-> TRUE, message |-> ""]
  /\ UNCHANGED << connected, orch, timers, running, simCall >>

\* the M-th createRoom call is the last one of a run
CreateRoomUpTo(M, s, n, code) == Len(room) < M /\ CreateRoom(s, n, code)

\* room.players.set(socket.id, {..., score: 0}): a new key goes last, a key
\* already there keeps its place and gets the new player object
SetPlayer(r, s) ==
  [room EXCEPT ![r].players = IF HasPlayer(room, r, s) THEN @ ELSE Append(@, s),
               ![r].score[s] = 0]

\* a joinRoom without the capacity test
joinRoomUnbounded(code) ==
  IF getRoom(code) = 0
  THEN [ev |-> "join-room", success |-> FALSE, message |-> "Room does not exist."]
  ELSE [ev |-> "join-room", success |-> TRUE, message |-> "Joined room successfully."]

\* joinRoom(roomCode, socket, playerName)
joinRoomResult(code) ==
  IF getRoom(code) = 0
  THEN [ev |-> "join-room", success |-> FALSE, message |-> "Room does not exist."]
  ELSE IF Len(room[getRoom(code)].players) >= MAX_PLAYERS
  THEN [ev |-> "join-room", success |-> FALSE, message |-> "Room is full."]
  ELSE [ev |-> "join-room", success |-> TRUE, message |-> "Joined room successfully."]

\* 'join-room' handler
JoinRoom(s, code) ==
  /\ running = 0
  /\ s \in connected
  /\ reply' = joinRoomResult(code)
  /\ room' = IF joinRoomResult(code).success THEN SetPlayer(getRoom(code), s)
             ELSE room
  /\ joined' = IF joinRoomResult(code).success
               THEN [joined EXCEPT ![code] = @ \cup {s}]
               ELSE joined
  /\ UNCHANGED << connected, rooms, orch, timers, running, simCall >>

\* rooms.delete(code)
DeleteAt(regs, i) == SubSeq(regs, 1, i - 1) \o SubSeq(regs, i + 1, Len(regs))

\* a removePlayer that leaves room.host alone and deletes no room
RECURSIVE removeScanKeepHost(_, _, _, _)
removeScanKeepHost(regs, rm, s, i) ==
  IF i > Len(regs) THEN [rooms |-> regs, room |-> rm]
  ELSE LET r == regs[i].rid
           left == SelectSeq(rm[r].players, LAMBDA x : x # s)
           gone == [rm EXCEPT ![r].players = left, ![r].score[s] = 0]
       IN IF ~HasPlayer(rm, r, s) THEN removeScanKeepHost(regs, rm, s, i + 1)
          ELSE removeScanKeepHost(regs, gone, s, i + 1)

\* removePlayer(socketId): the scan over rooms.entries() from entry i on.
\* The player leaves every room the scan visits; the scan ends at the first
\* room it deletes.
RECURSIVE removeScan(_, _, _, _)
removeScan(regs, rm, s, i) ==
  IF i > Len(regs) THEN [rooms |-> regs, room |-> rm]
  ELSE LET r == regs[i].rid
           left == SelectSeq(rm[r].players, LAMBDA x : x # s)
           gone == [rm EXCEPT ![r].players = left, ![r].score[s] = 0]
       IN IF ~HasPlayer(rm, r, s) THEN removeScan(regs, rm, s, i + 1)
          ELSE IF rm[r].host # s THEN removeScan(regs, gone, s, i + 1)
          ELSE IF left # << >>
          THEN removeScan(regs, [gone EXCEPT ![r].host = left[1]], s, i + 1)
          ELSE [rooms |-> DeleteAt(regs, i), room |-> gone]

removePlayer(s) == removeScan(rooms, room, s, 1)

\* 'disconnect' handler; a socket id is never used again
Disconnect(s) ==
  /\ running = 0
  /\ s \in connected
  /\ connected' = connected \ {s}
  /\ rooms' = removePlayer(s).rooms
  /\ room' = removePlayer(s).room
  /\ joined' = [code \in Codes |-> joined[code] \ {s}]
  /\ reply' = NoReply
  /\ UNCHANGED << orch, timers, running, simCall >>

(* ------------------------------- timers ------------------------------- *)
\* setTimeout: delay(5000) after a round, delay(10000) before the writing
\* phase, and the deadline of waitForPrompts (getWriteDuration: one minute
\* or more, the same for every round of a room)
Timer(kind, o, round) == [kind |-> kind, o |-> o, round |-> round]

Duration(timer) ==
  IF timer.kind = "pause" THEN 1 ELSE IF timer.kind = "view" THEN 2 ELSE 3

\* timers[i] is due before every timer set earlier: no earlier timer runs as
\* long or less (the waits of different rooms may differ in duration)
CanFire(i) ==
  \A j \in 1..(i - 1) :
    \/ Duration(timers[j]) > Duration(timers[i])
    \/ /\ timers[j].kind = "deadline"
       /\ timers[i].kind = "deadline"
       /\ orch[timers[j].o].room # orch[timers[i].o].room

Without(seq, i) == SubSeq(seq, 1, i - 1) \o SubSeq(seq, i + 1, Len(seq))

\* the position of the timer in the queue, or 0
TimerAt(kind, o, round) ==
  IF \E i \in 1..Len(timers) : timers[i] = Timer(kind, o, round)
  THEN CHOOSE i \in 1..Len(timers) : timers[i] = Timer(kind, o, round)
  ELSE 0

(* --------------------------- the prompt gate -------------------------- *)
\* the gate waitForPrompts opens in round `round` of orchestration o
Gate(o, round) == << o, round >>

\* resolve(): the promise of the gate's waitForPrompts call settles, and the
\* startGame suspended on it runs next; settling a promise twice does nothing
resolvePromise(gate) ==
  IF /\ orch[gate[1]].pc = "awaitPrompts"
     /\ orch[gate[1]].round = gate[2]
  THEN [orch EXCEPT ![gate[1]].pc = "resumed"]
  ELSE orch

resumedBy(gate) ==
  IF /\ orch[gate[1]].pc = "awaitPrompts"
     /\ orch[gate[1]].round = gate[2]
  THEN gate[1]
  ELSE 0

\* Array.from(room.players.keys()).every((id) => room.roundData.prompts[id])
allSubmitted(players, prompts) ==
  \A i \in 1..Len(players) : Truthy(prompts[players[i]])

\* a handlePromptSubmission that tests completeness before it stores the
\* prompt: the last submit of a round would leave the gate pending
resolvedBeforeStore(rm, s, p) ==
  IF /\ rm.resolver # NoGate
     /\ allSubmitted(rm.players, rm.roundData.prompts)
  THEN rm.resolver
  ELSE NoGate

\* handlePromptSubmission: the gate the call resolves once the prompt is
\* stored, or NoGate
resolvedBySubmit(rm, s, p) ==
  IF /\ rm.resolver # NoGate
     /\ allSubmitted(rm.players, [rm.roundData.prompts EXCEPT ![s] = p])
  THEN rm.resolver
  ELSE NoGate

\* a handlePromptSubmission that keeps the first prompt of a player
recordFirstPrompt(rm, s, p) ==
  LET kept == IF rm.roundData.prompts[s] = Undefined THEN p
              ELSE rm.roundData.prompts[s]
      stored == [rm EXCEPT !.roundData.prompts[s] = kept]
  IN IF resolvedBySubmit(rm, s, kept) # NoGate
     THEN [stored EXCEPT !.resolver = NoGate]
     ELSE stored

\* handlePromptSubmission(room, socketId, prompt), for a room that has a
\* prompts mapping: the room object after the call
recordPrompt(rm, s, p) ==
  LET stored == [rm EXCEPT !.roundData.prompts[s] = p]
  IN IF resolvedBySubmit(rm, s, p) # NoGate
     THEN [stored EXCEPT !.resolver = NoGate]
     ELSE stored

\* 'submit-prompt' handler.  Before the first round roundData is {} and the
\* store into roundData.prompts throws, which the handler reports.
SubmitPrompt(s, code, p) ==
  /\ running = 0
  /\ s \in connected
  /\ LET r == getRoom(code) IN
       IF r = 0
       THEN /\ reply' = [ev |-> "submit-prompt", success |-> FALSE,
                         message |-> "Room not found"]
            /\ UNCHANGED << room, orch, running >>
       ELSE IF ~room[r].roundData.set
       THEN /\ reply' = [ev |-> "submit-prompt", success |-> FALSE,
                         message |-> "TypeError"]
            /\ UNCHANGED << room, orch, running >>
       ELSE LET gate == resolvedBySubmit(room[r], s, p) IN
            /\ room' = [room EXCEPT ![r] = recordPrompt(room[r], s, p)]
            /\ orch' = IF gate = NoGate THEN orch ELSE resolvePromise(gate)
            /\ running' = IF gate = NoGate THEN 0 ELSE resumedBy(gate)
            /\ reply' = [ev |-> "submit-prompt", success |-> TRUE, message |-> ""]
  /\ UNCHANGED << connected, rooms, timers, joined, simCall >>

\* a timer callback that resolves only a complete round: with a prompt
\* missing the gate would stay pending after its deadline
DeadlineFiresIfComplete(o, round) ==
  /\ running = 0
  /\ TimerAt("deadline", o, round) # 0
  /\ CanFire(TimerAt("deadline", o, round))
  /\ timers' = Without(timers, TimerAt("deadline", o, round))
  /\ LET r == orch[o].room
         gate == room[r].resolver
     IN IF gate # NoGate /\ allSubmitted(room[r].players, room[r].roundData.prompts)
        THEN /\ orch' = resolvePromise(gate)
             /\ running' = resumedBy(gate)
             /\ room' = [room EXCEPT ![r].resolver = NoGate]
        ELSE UNCHANGED << room, orch, running >>
  /\ reply' = NoReply
  /\ UNCHANGED << connected, rooms, joined, simCall >>

\* the setTimeout callback of waitForPrompts for the gate of round `round`
\* of orchestration o: it resolves whatever the room's resolver field holds
DeadlineFires(o, round) ==
  /\ running = 0
  /\ TimerAt("deadline", o, round) # 0
  /\ CanFire(TimerAt("deadline", o, round))
  /\ timers' = Without(timers, TimerAt("deadline", o, round))
  /\ LET r == orch[o].room
         gate == room[r].resolver
     IN IF gate # NoGate
        THEN /\ orch' = resolvePromise(gate)
             /\ running' = resumedBy(gate)
             /\ room' = [room EXCEPT ![r].resolver = NoGate]
        ELSE UNCHANGED << room, orch, running >>
  /\ reply' = NoReply
  /\ UNCHANGED << connected, rooms, joined, simCall >>

(* ------------------------- the round orchestrator --------------------- *)
\* 'start-game' handler and startGame up to its first assignment of
\* room.state; the handler answers only when startGame has returned or thrown
StartGame(s, code) ==
  /\ running = 0
  /\ s \in connected
  /\ LET r == getRoom(code) IN
       IF r = 0
       THEN /\ reply' = [ev |-> "start-game", success |-> FALSE,
                         message |-> "Room not found"]
            /\ UNCHANGED << room, orch, running >>
       ELSE /\ orch' = Append(orch, [room |-> r, socket |-> s, pc |-> "starting",
                                     round |-> 1, category |-> "none",
                                     playerIds |-> << >>, idx |-> 0,
                                     sent |-> << GameState(code, STARTING, 0) >>])
            /\ room' = [room EXCEPT ![r].state = STARTING]
            /\ running' = Len(orch) + 1
            /\ reply' = NoReply
  /\ UNCHANGED << connected, rooms, timers, joined, simCall >>

\* the K-th startGame call is the last one of a run
StartGameUpTo(K, s, code) == Len(orch) < K /\ StartGame(s, code)

\* a startGame that builds roundData in the first round only
loopTestKeep(o, round) ==
  LET r == orch[o].room IN
  /\ IF round <= room[r].rounds
     THEN \E category \in CATEGORIES :
            /\ room' = [room EXCEPT ![r].currentRound = round,
                                    ![r].roundData = IF round = 1
                                                     THEN FreshRoundData ELSE @,
                                    ![r].state = SHOWING_IMAGE]
            /\ orch' = [orch EXCEPT ![o].pc = "awaitOriginal",
                                    ![o].round = round,
                                    ![o].category = category,
                                    ![o].sent = << GameState(room[r].code,
                                                             SHOWING_IMAGE,
                                                             round) >>]
            /\ reply' = NoReply
     ELSE /\ room' = [room EXCEPT ![r].state = GAME_OVER]
          /\ orch' = [orch EXCEPT ![o].pc = "done", ![o].round = round,
                                  ![o].sent = << GameState(room[r].code,
                                                           GAME_OVER, 0),
                                                 Notice("game-over", room[r].code,
                                                        "none", 0) >>]
          /\ reply' = [ev |-> "start-game", success |-> TRUE, message |-> ""]
  /\ running' = 0
  /\ UNCHANGED << connected, rooms, joined, simCall >>

\* the loop test of startGame with the round it is about to run: the top of
\* a round up to `await generateOriginalImage`, or the code after the loop
loopTest(o, round) ==
  LET r == orch[o].room IN
  /\ IF round <= room[r].rounds
     THEN \E category \in CATEGORIES :
            /\ room' = [room EXCEPT ![r].currentRound = round,
                                    ![r].roundData = FreshRoundData,
                                    ![r].state = SHOWING_IMAGE]
            /\ orch' = [orch EXCEPT ![o].pc = "awaitOriginal",
                                    ![o].round = round,
                                    ![o].category = category,
                                    ![o].sent = << GameState(room[r].code,
                                                             SHOWING_IMAGE,
                                                             round) >>]
            /\ reply' = NoReply
     ELSE /\ room' = [room EXCEPT ![r].state = GAME_OVER]
          /\ orch' = [orch EXCEPT ![o].pc = "done", ![o].round = round,
                                  ![o].sent = << GameState(room[r].code,
                                                           GAME_OVER, 0),
                                                 Notice("game-over", room[r].code,
                                                        "none", 0) >>]
          /\ reply' = [ev |-> "start-game", success |-> TRUE, message |-> ""]
  /\ running' = 0
  /\ UNCHANGED << connected, rooms, joined, simCall >>

\* startGame goes on from room.state = STARTING into the loop
FirstRound(o) ==
  /\ o \in OrchIds
  /\ running = o
  /\ orch[o].pc = "starting"
  /\ loopTest(o, 1)
  /\ UNCHANGED timers

\* generateOriginalImage has returned: the prompt is stored and the viewing
\* delay starts
OriginalReady(o) ==
  /\ o \in OrchIds
  /\ running = 0
  /\ orch[o].pc = "awaitOriginal"
  /\ room' = [room EXCEPT ![orch[o].room].roundData.originalPrompt =
                            OriginalPrompt(orch[o].category)]
  /\ orch' = [orch EXCEPT ![o].pc = "viewDelay",
                          ![o].sent = << Notice("original-image",
                                                room[orch[o].room].code, "none",
                                                orch[o].round) >>]
  /\ timers' = Append(timers, Timer("view", o, orch[o].round))
  /\ reply' = NoReply
  /\ UNCHANGED << connected, rooms, running, joined, simCall >>

\* delay(10000) is over: the writing phase opens; waitForPrompts stores its
\* resolver on the room and arms the deadline
ViewElapsed(o) ==
  /\ o \in OrchIds
  /\ running = 0
  /\ orch[o].pc = "viewDelay"
  /\ CanFire(TimerAt("view", o, orch[o].round))
  /\ LET r == orch[o].room IN
       room' = [room EXCEPT ![r].state = WRITING_PROMPT,
                            ![r].resolver = Gate(o, orch[o].round)]
  /\ timers' = Append(Without(timers, TimerAt("view", o, orch[o].round)),
                      Timer("deadline", o, orch[o].round))
  /\ orch' = [orch EXCEPT ![o].pc = "awaitPrompts",
                          ![o].sent = << GameState(room[orch[o].room].code,
                                                   WRITING_PROMPT,
                                                   orch[o].round) >>]
  /\ reply' = NoReply
  /\ UNCHANGED << connected, rooms, running, joined, simCall >>

\* an image loop that calls generateImageFromPrompt for every player
imageLoopAll(prompts, images, ids, i) == [images |-> images, idx |-> i]

\* the image loop of startGame from index i on, up to the next `await`:
\* players without a prompt get a null image at once
RECURSIVE imageLoop(_, _, _, _)
imageLoop(prompts, images, ids, i) ==
  IF i > Len(ids) THEN [images |-> images, idx |-> i]
  ELSE IF Truthy(prompts[ids[i]]) THEN [images |-> images, idx |-> i]
  ELSE imageLoop(prompts, [images EXCEPT ![ids[i]] = Null], ids, i + 1)

\* the gate has resolved: GENERATING_IMAGES begins with the snapshot of the
\* player ids
GenStart(o) ==
  /\ o \in OrchIds
  /\ running = o
  /\ orch[o].pc = "resumed"
  /\ LET r == orch[o].room
         ids == room[r].players
         loop == imageLoop(room[r].roundData.prompts, room[r].roundData.images,
                           ids, 1)
     IN /\ room' = [room EXCEPT ![r].state = GENERATING_IMAGES,
                                ![r].roundData.images = loop.images]
        /\ orch' = [orch EXCEPT ![o].playerIds = ids,
                                ![o].idx = loop.idx,
                                ![o].sent = << GameState(room[r].code,
                                                         GENERATING_IMAGES,
                                                         orch[o].round) >>,
                                ![o].pc = IF loop.idx > Len(ids) THEN "generated"
                                          ELSE "awaitImage"]
        /\ running' = IF loop.idx > Len(ids) THEN o ELSE 0
  /\ reply' = NoReply
  /\ UNCHANGED << connected, rooms, timers, joined, simCall >>

\* generateImageFromPrompt has returned for the player at idx, with an image
\* or with none
ImageReady(o, image) ==
  /\ o \in OrchIds
  /\ running = 0
  /\ orch[o].pc = "awaitImage"
  /\ LET r == orch[o].room
         ids == orch[o].playerIds
         stored == [room[r].roundData.images EXCEPT ![ids[orch[o].idx]] = image]
         loop == imageLoop(room[r].roundData.prompts, stored, ids, orch[o].idx + 1)
     IN /\ room' = [room EXCEPT ![r].roundData.images = loop.images]
        /\ orch' = [orch EXCEPT ![o].idx = loop.idx,
                                ![o].pc = IF loop.idx > Len(ids) THEN "generated"
                                          ELSE "awaitImage"]
        /\ running' = IF loop.idx > Len(ids) THEN o ELSE 0
  /\ reply' = NoReply
  /\ UNCHANGED << connected, rooms, timers, joined, simCall >>

\* the scoring loop: a round score for every id of the snapshot
roundScores(original, prompts, scores, ids) ==
  [id \in Sockets |->
     IF id \in Range(ids)
     THEN IF Truthy(prompts[id]) THEN Similarity[original, prompts[id]]
          ELSE 0
     ELSE scores[id]]

\* the accumulation loop from index i on: player.score += roundScore, which
\* throws at the first id of the snapshot that room.players no longer holds
RECURSIVE accumulate(_, _, _, _, _)
accumulate(players, score, scores, ids, i) ==
  IF i > Len(ids) THEN [score |-> score, thrown |-> FALSE]
  ELSE IF ids[i] \notin Range(players) THEN [score |-> score, thrown |-> TRUE]
  ELSE accumulate(players, [score EXCEPT ![ids[i]] = @ + scores[ids[i]]],
                  scores, ids, i + 1)

\* startGame from the 'generated-images' broadcast to delay(5000)
Vote(o) ==
  /\ o \in OrchIds
  /\ running = o
  /\ orch[o].pc = "generated"
  /\ LET r == orch[o].room
         playerIds == orch[o].playerIds
         roundScore == roundScores(OriginalPrompt(orch[o].category),
                                   room[r].roundData.prompts,
                                   room[r].roundData.scores, playerIds)
         sum == accumulate(room[r].players, room[r].score, roundScore,
                           playerIds, 1)
         results == Notice("round-results", room[r].code, "none", orch[o].round)
         broadcast == << Notice("generated-images", room[r].code, "none",
                                orch[o].round),
                         GameState(room[r].code, VOTING, orch[o].round) >>
                      \o (IF sum.thrown THEN << >> ELSE << results >>)
     IN /\ room' = [room EXCEPT ![r].state = VOTING,
                                ![r].roundData.scores = roundScore,
                                ![r].score = sum.score]
        /\ orch' = [orch EXCEPT ![o].pc = IF sum.thrown THEN "faulted"
                                          ELSE "pauseDelay",
                                ![o].sent = broadcast]
        /\ reply' = IF sum.thrown
                    THEN [ev |-> "start-game", success |-> FALSE,
                          message |-> "TypeError"]
                    ELSE NoReply
        /\ timers' = IF sum.thrown THEN timers
                     ELSE Append(timers, Timer("pause", o, orch[o].round))
  /\ running' = 0
  /\ UNCHANGED << connected, rooms, joined, simCall >>

\* delay(5000) is over: round++ and the loop test
PauseElapsed(o) ==
  /\ o \in OrchIds
  /\ running = 0
  /\ orch[o].pc = "pauseDelay"
  /\ CanFire(TimerAt("pause", o, orch[o].round))
  /\ timers' = Without(timers, TimerAt("pause", o, orch[o].round))
  /\ loopTest(o, orch[o].round + 1)

(* --------------------------- specifications --------------------------- *)
\* One run of the server in which the sockets of S send requests, creators
\* ask for at most R rounds, startGame is called at most K times, and at most
\* M rooms are created, under the codes of C; clients submit the texts of P.
Step(S, R, K, C, M, P) ==
  \/ \E s \in S, n \in 1..R, code \in C : CreateRoomUpTo(M, s, n, code)
  \/ \E s \in S, code \in C : JoinRoom(s, code)
  \/ \E s \in S : Disconnect(s)
  \/ \E s \in S, code \in C : StartGameUpTo(K, s, code)
  \/ \E s \in S, code \in C, p \in P : SubmitPrompt(s, code, p)
  \/ \E o \in 1..K, round \in 1..R : DeadlineFires(o, round)
  \/ \E o \in 1..K : FirstRound(o)
  \/ \E o \in 1..K : OriginalReady(o)
  \/ \E o \in 1..K : ViewElapsed(o)
  \/ \E o \in 1..K : GenStart(o)
  \/ \E o \in 1..K, image \in {Image, Null} : ImageReady(o, image)
  \/ \E o \in 1..K : Vote(o)
  \/ \E o \in 1..K : PauseElapsed(o)

\* every client takes part, in one room, and the game is started once
Next == Step(Clients, MaxRounds, 1, {FirstCode}, 1, PromptTexts)

Spec == Init /\ [][Next]_vars

\* every client takes part, in rooms under any of the codes, with games of
\* one round and one prompt text
NextRegistry == Step(Clients, 1, 1, Codes, MaxRooms, {ScenePrompt})

SpecRegistry == Init /\ [][NextRegistry]_vars

\* the steps the server takes by itself: timers fire, the image calls return
\* and startGame runs on whenever it holds the thread
ServerStep ==
  \/ \E o \in 1..1, round \in 1..MaxRounds : DeadlineFires(o, round)
  \/ \E o \in 1..1 : FirstRound(o)
  \/ \E o \in 1..1 : OriginalReady(o)
  \/ \E o \in 1..1 : ViewElapsed(o)
  \/ \E o \in 1..1 : GenStart(o)
  \/ \E o \in 1..1, image \in {Image, Null} : ImageReady(o, image)
  \/ \E o \in 1..1 : Vote(o)
  \/ \E o \in 1..1 : PauseElapsed(o)

\* one socket and one start, with timers that fire and image calls that
\* return
NextSolo == Step({1}, MaxRounds, 1, {FirstCode}, 1, PromptTexts)

SpecFair == Init /\ [][NextSolo]_vars /\ WF_vars(ServerStep)

\* one socket, whose start-game requests the server handles one after another
NextRestart == Step({1}, MaxRounds, MaxStarts, {FirstCode}, 1, PromptTexts)

SpecRestart == Init /\ [][NextRestart]_vars

\* the registry by itself: createRoom, joinRoom and removePlayer calls of
\* more sockets than a room has places for
NextCapacity ==
  \/ \E s \in Sockets, code \in Codes : CreateRoomUpTo(MaxRooms, s, 1, code)
  \/ \E s \in Sockets, code \in Codes : JoinRoom(s, code)
  \/ \E s \in Sockets : Disconnect(s)

SpecCapacity == Init /\ [][NextCapacity]_vars

\* calculateSimilarity by itself: a call with two texts, then its result
InitSimilarity ==
  /\ connected = Sockets
  /\ rooms = << >>
  /\ room = << >>
  /\ orch = << >>
  /\ timers = << >>
  /\ running = 0
  /\ reply = NoReply
  /\ joined = [code \in Codes |-> {}]
  /\ simCall \in [a : SimTexts, b : SimTexts, out : {NoScore}]

ApplySimilarity ==
  /\ simCall.out = NoScore
  /\ simCall' = [simCall EXCEPT !.out = calculateSimilarity(simCall.a, simCall.b)]
  /\ UNCHANGED << connected, rooms, room, orch, timers, running, reply, joined >>

NextSimilarity == ApplySimilarity

SpecSimilarity == InitSimilarity /\ [][NextSimilarity]_vars

(* ------------------------------- claims ------------------------------- *)
\* the gates whose deadline is armed, among the timers tm
ArmedGates(tm) ==
  {Gate(tm[i].o, tm[i].round) : i \in {j \in 1..Len(tm) : tm[j].kind = "deadline"}}

\* the startGame invocations made on room object r
OrchsOf(r) == {o \in OrchIds : orch[o].room = r}

\* startGame has returned or thrown
Ended(o) == orch[o].pc \in {"done", "faulted"}

\* one step of the documented state machine, from room object a to b
InOrder(a, b) ==
  \/ b.state = a.state
  \/ a.state = WAITING /\ b.state = STARTING
  \/ a.state = STARTING /\ b.state = SHOWING_IMAGE /\ b.currentRound = 1
  \/ a.state = SHOWING_IMAGE /\ b.state = WRITING_PROMPT
  \/ a.state = WRITING_PROMPT /\ b.state = GENERATING_IMAGES
  \/ a.state = GENERATING_IMAGES /\ b.state = VOTING
  \/ /\ a.state = VOTING /\ b.state = SHOWING_IMAGE
     /\ b.currentRound = a.currentRound + 1
     /\ b.currentRound <= a.rounds
  \/ a.state = VOTING /\ b.state = GAME_OVER /\ a.currentRound = a.rounds

\* C1: on a room started once, room.state runs through WAITING, STARTING,
\* the four phases once per configured round, and startGame ends with the
\* room in GAME_OVER; no other transition is made and SHOWING_RESULTS is
\* never entered.
C1_StateSequence ==
  [][\A r \in RoomIds :
       Cardinality({o \in 1..Len(orch') : orch'[o].room = r}) <= 1 =>
         /\ InOrder(room[r], room'[r])
         /\ room'[r].state # SHOWING_RESULTS
         /\ \A o \in OrchsOf(r) :
              ~Ended(o) /\ orch'[o].pc \in {"done", "faulted"} =>
                room'[r].state = GAME_OVER]_vars

\* C7: once startGame has begun for a room, the room's state eventually
\* becomes GAME_OVER, whatever joins, departures and submits happen, given
\* that timers fire and image calls return.
C7_RunsToGameOver ==
  \A r \in 1..MaxRooms :
    (r \in RoomIds /\ OrchsOf(r) # {})
      ~> (r \in RoomIds /\ room[r].state = GAME_OVER)

\* C8: startGame never faults, also when a player of the snapshot taken at
\* GENERATING_IMAGES has left the room before the id is used.
C8_NeverFaults ==
  \A o \in OrchIds : orch[o].pc # "faulted"

\* every player now in the room has a non-empty entry in roundData.prompts
EveryPlayerSubmitted(rm) ==
  \A i \in 1..Len(rm.players) :
    /\ rm.roundData.prompts[rm.players[i]] # Undefined
    /\ rm.roundData.prompts[rm.players[i]] # EmptyStr

\* the step resolves the gate held by room object r: the reference is
\* cleared and the startGame that waits on the gate runs next
Resolves(r) ==
  /\ room'[r].resolver = NoGate
  /\ running' = room[r].resolver[1]
  /\ orch[running'].pc = "awaitPrompts"
  /\ orch'[running'].pc = "resumed"

\* C2: a submit made while a gate is pending, after which every player of
\* the room has a non-empty prompt, resolves the gate in that step, before
\* the gate's deadline has fired, and clears the room's gate reference.
C2_LastSubmitResolves ==
  [][\A s \in Sockets, code \in Codes, p \in PromptTexts :
       LET r == getRoom(code) IN
       (/\ SubmitPrompt(s, code, p)
        /\ r # 0
        /\ room[r].roundData.set
        /\ room[r].resolver # NoGate
        /\ EveryPlayerSubmitted(room'[r]))
       => /\ Resolves(r)
          /\ room'[r].roundData.prompts[s] = p
          /\ room[r].resolver \in ArmedGates(timers')]_vars

\* C2 witness: a submit has just resolved the gate of a room with two
\* players while the gate's deadline is still armed.
C2_Witness ==
  /\ reply.ev = "submit-prompt"
  /\ reply.success
  /\ \E o \in OrchIds :
       /\ running = o
       /\ orch[o].pc = "resumed"
       /\ Len(room[orch[o].room].players) = 2
       /\ EveryPlayerSubmitted(room[orch[o].room])
       /\ Gate(o, orch[o].round) \in ArmedGates(timers)

\* C3: a deadline that fires while a gate is pending resolves the gate
\* whatever has been submitted, keeps the prompts recorded so far, clears
\* the gate reference, and the room goes on to GENERATING_IMAGES.
C3_DeadlineResolves ==
  [][/\ \A o \in OrchIds, round \in 1..MaxRounds :
          LET r == orch[o].room IN
          DeadlineFires(o, round) /\ room[r].resolver # NoGate =>
            /\ Resolves(r)
            /\ room'[r].roundData = room[r].roundData
     /\ \A o \in OrchIds :
          orch[o].pc = "resumed" =>
            /\ room'[orch[o].room].state = GENERATING_IMAGES
            /\ room'[orch[o].room].roundData.prompts =
                 room[orch[o].room].roundData.prompts]_vars

\* C3 witness: the deadline has just resolved the gate of a room in which
\* one player has submitted and another has not.
C3_Witness ==
  /\ reply = NoReply
  /\ \E o \in OrchIds :
       /\ running = o
       /\ orch[o].pc = "resumed"
       /\ Gate(o, orch[o].round) \notin ArmedGates(timers)
       /\ \E i, j \in 1..Len(room[orch[o].room].players) :
            LET rm == room[orch[o].room] IN
            /\ Truthy(rm.roundData.prompts[rm.players[i]])
            /\ ~Truthy(rm.roundData.prompts[rm.players[j]])

\* C4: the writing phase of a round is left once.  A startGame resumes only
\* in the step that clears the gate reference it waits on, and the state
\* leaves WRITING_PROMPT only by the resumed startGame; a deadline that fires
\* for a gate already resolved finds the reference cleared and advances
\* nothing, and so does a submit that finds the reference cleared.
C4_ResolvedOnce ==
  [][/\ \A o \in OrchIds :
          orch'[o].pc = "resumed" /\ orch[o].pc # "resumed" =>
            /\ orch[o].pc = "awaitPrompts"
            /\ room[orch[o].room].resolver = Gate(o, orch[o].round)
            /\ room'[orch[o].room].resolver = NoGate
     /\ \A o \in OrchIds, round \in 1..MaxRounds :
          (/\ DeadlineFires(o, round)
           /\ ~(orch[o].pc = "awaitPrompts" /\ orch[o].round = round))
          => /\ room[orch[o].room].resolver = NoGate
             /\ UNCHANGED << room, orch, running >>
     /\ \A s \in Sockets, code \in Codes, p \in PromptTexts :
          LET r == getRoom(code) IN
          (SubmitPrompt(s, code, p) /\ r # 0 /\ room[r].resolver = NoGate) =>
            /\ orch' = orch
            /\ running' = 0
            /\ room'[r].state = room[r].state
     /\ \A r \in RoomIds :
          room[r].state = WRITING_PROMPT /\ room'[r].state # WRITING_PROMPT =>
            /\ room'[r].state = GENERATING_IMAGES
            /\ \E o \in OrchsOf(r) :
                 orch[o].pc = "resumed" /\ orch'[o].pc # "resumed"]_vars

\* C5: a gate belongs to one round: the writing phase of a round ends only
\* when every player of the room has a non-empty prompt or when the deadline
\* armed for that round's gate has fired, never by the deadline armed for an
\* earlier round.
C5_OwnDeadlineOnly ==
  \A o \in OrchIds :
    orch[o].pc = "resumed" =>
      \/ EveryPlayerSubmitted(room[orch[o].room])
      \/ Gate(o, orch[o].round) \notin ArmedGates(timers)

\* C6: a room never has more than one wait-for-prompts suspended at a time.
C6_OneGatePerRoom ==
  \A r \in RoomIds :
    Cardinality({o \in OrchsOf(r) : orch[o].pc = "awaitPrompts"}) <= 1

\* C9: a start-game request for a room that is not in WAITING, or for a code
\* no room has, is answered with a failure, starts no orchestration and
\* leaves the room's state alone.
C9_StartRejected ==
  [][\A s \in Sockets, code \in Codes :
       (/\ StartGame(s, code)
        /\ \/ getRoom(code) = 0
           \/ room[getRoom(code)].state # WAITING)
       => /\ reply'.ev = "start-game"
          /\ ~reply'.success
          /\ orch' = orch
          /\ room' = room]_vars

\* C10: currentRound is 0 in a new room, never decreases and never exceeds
\* config.rounds.
C10_RoundMonotone ==
  [][/\ \A r \in RoomIds :
          /\ room'[r].currentRound >= room[r].currentRound
          /\ room'[r].currentRound <= room'[r].rounds
     /\ \A r \in 1..Len(room') :
          r \notin RoomIds => room'[r].currentRound = 0]_vars

(* --------------------------- registry claims -------------------------- *)
\* the room objects registered in regs
Live(regs) == {regs[i].rid : i \in 1..Len(regs)}

\* the registered rooms of the collection rm that hold player s
RoomsOf(regs, rm, s) == {r \in Live(regs) : s \in Range(rm[r].players)}

\* C11: createRoom ends on a code of six characters of the alphabet that no
\* live room had, and registers under it a room whose only player and host
\* is the creator, in WAITING with currentRound 0; the rooms that were
\* live stay registered and are not changed.
C11_CreateRoom ==
  [][\A s \in Sockets, n \in 1..MaxRounds, code \in Codes :
       CreateRoom(s, n, code) =>
         /\ Len(code) = 6
         /\ \A i \in 1..Len(code) : code[i] \in Range(CodeChars)
         /\ \A i \in 1..Len(rooms) : rooms[i].code # code
         /\ \E i \in 1..Len(rooms') :
              /\ rooms'[i].code = code
              /\ \A j \in 1..Len(rooms') : rooms'[j].code = code => j = i
              /\ room'[rooms'[i].rid].players = << s >>
              /\ room'[rooms'[i].rid].host = s
              /\ room'[rooms'[i].rid].state = WAITING
              /\ room'[rooms'[i].rid].currentRound = 0
         /\ \A i \in 1..Len(rooms) :
              /\ rooms'[i] = rooms[i]
              /\ room'[rooms[i].rid] = room[rooms[i].rid]]_vars

\* C11 witness: a room has just been created next to a live room of two
\* players.
C11_Witness ==
  /\ reply.ev = "create-room"
  /\ Len(rooms) = 2
  /\ Len(room[rooms[1].rid].players) = 2
  /\ Len(room[rooms[2].rid].players) = 1
  /\ room[rooms[2].rid].state = WAITING
  /\ rooms[1].code # rooms[2].code

\* C12: joinRoom with a code no live room has fails with the not-found
\* reason, joinRoom on a room at capacity fails with the room-full reason,
\* and neither changes any room or the registry.
C12_JoinRejected ==
  [][\A s \in Sockets, code \in Codes :
       LET r == getRoom(code) IN
       /\ (JoinRoom(s, code) /\ r = 0) =>
            /\ ~reply'.success
            /\ reply'.message = "Room does not exist."
            /\ room' = room /\ rooms' = rooms
       /\ (JoinRoom(s, code) /\ r # 0 /\ Len(room[r].players) >= MAX_PLAYERS) =>
            /\ ~reply'.success
            /\ reply'.message = "Room is full."
            /\ room' = room /\ rooms' = rooms]_vars

\* C12 witness: a join has just been refused by a room that holds as many
\* players as the capacity, while another code names no live room.
C12_Witness ==
  /\ reply.ev = "join-room"
  /\ reply.message = "Room is full."
  /\ \E r \in Live(rooms) : Len(room[r].players) = MAX_PLAYERS
  /\ \E code \in Codes : getRoom(code) = 0

\* C13: joinRoom on a live room under capacity succeeds and the room has one
\* player more, also for a socket that is a player of the room already.
C13_JoinAddsOne ==
  [][\A s \in Sockets, code \in Codes :
       LET r == getRoom(code) IN
       (JoinRoom(s, code) /\ r # 0 /\ Len(room[r].players) < MAX_PLAYERS) =>
         /\ reply'.success
         /\ Len(room'[r].players) = Len(room[r].players) + 1]_vars

\* C14: every live room has a host, and the host is one of its players.
C14_HostIsMember ==
  \A r \in Live(rooms) : room[r].host \in Range(room[r].players)

\* C14 witness: a live room that held players 1 and 2 in a round, in that
\* order, has lost player 1, its host, and player 2 is the host.
C14_Witness ==
  \E o \in OrchIds :
    /\ orch[o].playerIds = << 1, 2 >>
    /\ orch[o].room \in Live(rooms)
    /\ room[orch[o].room].players = << 2 >>
    /\ room[orch[o].room].host = 2
    /\ 1 \notin connected

\* C15: removePlayer of the host of a room with other members makes one of
\* them the host and keeps the room registered; of the host of a one-player
\* room, deletes the room; of a member that is not the host, leaves the
\* host as it is.
C15_RemoveHost ==
  [][\A s \in Sockets :
       Disconnect(s) =>
         \A i \in 1..Len(rooms) :
           LET r == rooms[i].rid
               others == Range(room[r].players) \ {s}
           IN s \in Range(room[r].players) =>
                /\ (room[r].host = s /\ others # {}) =>
                     /\ r \in Live(rooms')
                     /\ room'[r].host \in others
                     /\ Range(room'[r].players) = others
                /\ (room[r].host = s /\ others = {}) =>
                     \A j \in 1..Len(rooms') : rooms'[j].code # rooms[i].code
                /\ room[r].host # s =>
                     /\ r \in Live(rooms')
                     /\ room'[r].host = room[r].host]_vars

\* C16: a socket is a player of at most one live room.
C16_OneRoomPerPlayer ==
  \A s \in Sockets : Cardinality(RoomsOf(rooms, room, s)) <= 1

\* C17: after removePlayer(p), p is a player of no live room, and when p
\* was a player of none the call changes nothing.
C17_RemovedEverywhere ==
  [][\A s \in Sockets :
       Disconnect(s) =>
         /\ RoomsOf(rooms', room', s) = {}
         /\ RoomsOf(rooms, room, s) = {} => room' = room /\ rooms' = rooms]_vars

(* -------------------------- submission claims ------------------------- *)
\* C18: a submit-prompt request that names a live room is answered with
\* success in every state of the room, WAITING and GAME_OVER included.
C18_SubmitAccepted ==
  [][\A s \in Sockets, code \in Codes, p \in PromptTexts :
       (SubmitPrompt(s, code, p) /\ getRoom(code) # 0) =>
         /\ reply'.ev = "submit-prompt"
         /\ reply'.success]_vars

\* C19: a submit that arrives when the gate of the round has resolved and
\* the images are being generated is recorded and changes nothing else: no
\* startGame resumes, the state stays, the prompts the remaining image calls
\* are made with stay, and the round scores come out the same.
C19_LateSubmitInert ==
  [][\A s \in Sockets, code \in Codes, p \in PromptTexts :
       \A o \in OrchsOf(getRoom(code)) :
         LET r == getRoom(code)
             ids == orch[o].playerIds
         IN (SubmitPrompt(s, code, p) /\ orch[o].pc = "awaitImage") =>
              /\ room'[r].roundData.prompts[s] = p
              /\ orch' = orch
              /\ running' = 0
              /\ room'[r].state = room[r].state
              /\ \A i \in (orch[o].idx + 1)..Len(ids) :
                   room'[r].roundData.prompts[ids[i]] =
                     room[r].roundData.prompts[ids[i]]
              /\ roundScores(OriginalPrompt(orch[o].category),
                             room'[r].roundData.prompts,
                             room'[r].roundData.scores, ids)
                   = roundScores(OriginalPrompt(orch[o].category),
                                 room[r].roundData.prompts,
                                 room[r].roundData.scores, ids)]_vars

\* C20: within a round a submit is never refused and leaves the text of
\* the submit as the player's entry, whatever the entry was; an entry
\* changes only by a submit of that player or when a new round begins.
C20_LastWriteWins ==
  [][/\ \A s \in Sockets, code \in Codes, p \in PromptTexts :
          LET r == getRoom(code) IN
          (SubmitPrompt(s, code, p) /\ r # 0 /\ room[r].roundData.set) =>
            /\ reply'.success
            /\ room'[r].roundData.prompts[s] = p
     /\ \A r \in RoomIds, s \in Sockets :
          room'[r].roundData.prompts[s] # room[r].roundData.prompts[s] =>
            \/ room'[r].currentRound # room[r].currentRound
            \/ \E p \in PromptTexts :
                 /\ SubmitPrompt(s, room[r].code, p)
                 /\ room'[r].roundData.prompts[s] = p]_vars

\* C20 witness: the player whose image is being generated, from the text
\* that player had submitted, has just submitted the empty text, which is
\* now the player's entry.
C20_Witness ==
  /\ reply.ev = "submit-prompt"
  /\ reply.success
  /\ \E o \in OrchIds :
       /\ orch[o].pc = "awaitImage"
       /\ room[orch[o].room].roundData.prompts[orch[o].playerIds[orch[o].idx]]
            = EmptyStr

(* ---------------------------- score claims ---------------------------- *)
\* the step is the scoring of a round by orchestration o
Scores(o) ==
  /\ orch[o].pc = "generated"
  /\ orch'[o].pc \in {"pauseDelay", "faulted"}

\* C21: a player's cumulative score is never negative, never decreases
\* while the player stays in the room, and changes by 0 to 100 at a time.
C21_ScoreMonotone ==
  /\ [](\A r \in RoomIds, s \in Sockets : room[r].score[s] >= 0)
  /\ [][\A r \in RoomIds, s \in Sockets :
          (HasPlayer(room, r, s) /\ HasPlayer(room', r, s)) =>
            /\ room'[r].score[s] >= room[r].score[s]
            /\ room'[r].score[s] <= room[r].score[s] + 100]_vars

\* C22: the cumulative score of a player who stays in the room changes only
\* in the scoring step of a round, which a round has once, and there by the
\* round score the step stores for the player (nothing for a player the
\* step gives no round score); so the final score is the sum of the
\* player's round scores.
C22_ScoredOncePerRound ==
  [][\A r \in RoomIds :
       /\ \A o \in OrchsOf(r) : Scores(o) => room[r].state # VOTING
       /\ \A s \in Sockets :
            (HasPlayer(room, r, s) /\ HasPlayer(room', r, s)) =>
              room'[r].score[s] =
                IF \E o \in OrchsOf(r) : Scores(o)
                THEN room[r].score[s]
                     + Max(room'[r].roundData.scores[s], 0)
                ELSE room[r].score[s]]_vars

\* C23: at the scoring of a round every player of the snapshot has an image
\* entry and gets a round score, and the round score of a player whose
\* image is null is 0.
C23_NullImageScoresZero ==
  [][\A o \in OrchIds :
       Scores(o) =>
         \A s \in Range(orch[o].playerIds) :
           LET data == room[orch[o].room].roundData
               scored == room'[orch[o].room].roundData
           IN /\ data.images[s] # NoEntry
              /\ scored.scores[s] # NoScore
              /\ data.images[s] = Null => scored.scores[s] = 0]_vars

\* C24: a step that begins a round (the room enters SHOWING_IMAGE, or its
\* round number changes) leaves roundData with no prompt, no image, no score
\* and no original prompt: nothing recorded before the round reaches it.
C24_RoundDataReplaced ==
  [][\A r \in RoomIds :
       (\/ room'[r].state = SHOWING_IMAGE /\ room[r].state # SHOWING_IMAGE
        \/ room'[r].currentRound # room[r].currentRound) =>
         /\ room'[r].state = SHOWING_IMAGE
         /\ room'[r].roundData.set
         /\ room'[r].roundData.originalPrompt = NullStr
         /\ \A s \in Sockets :
              /\ room'[r].roundData.prompts[s] = Undefined
              /\ room'[r].roundData.images[s] = NoEntry
              /\ room'[r].roundData.scores[s] = NoScore]_vars

\* C24 witness: the second round has just begun with an empty roundData for
\* a player whose prompt of the first round was scored.
C24_Witness ==
  \E o \in OrchIds :
    LET rm == room[orch[o].room] IN
    /\ orch[o].pc = "awaitOriginal"
    /\ rm.state = SHOWING_IMAGE
    /\ rm.currentRound = 2
    /\ \E s \in Range(rm.players) :
         /\ rm.score[s] > 0
         /\ rm.roundData.prompts[s] = Undefined

\* the tokens of a text
Tokens(text) == splitWords(toLowerCase(text))

\* the candidate's tokens found among the original's tokens
Overlap(original, candidate) ==
  Cardinality({i \in DOMAIN Tokens(candidate) :
                 \E j \in DOMAIN Tokens(original) :
                   Tokens(original)[j] = Tokens(candidate)[i]})

\* C25: calculateSimilarity returns 0 when an input is absent or empty, and
\* otherwise the integer nearest to 100 * c / max(|original|, |candidate|)
\* (halves up), c being the number of candidate tokens among the original's
\* tokens; the result is an integer from 0 to 100, it is 100 for two equal
\* non-empty texts and 67 for "a cat sat" against "a cat".
C25_Similarity ==
  simCall.out # NoScore =>
    LET a == simCall.a
        b == simCall.b
        out == simCall.out
        longest == Max(Len(Tokens(a)), Len(Tokens(b)))
    IN /\ out \in 0..100
       /\ IF a \in {Undefined, EmptyStr} \/ b \in {Undefined, EmptyStr}
          THEN out = 0
          ELSE /\ 2 * out * longest - longest <= 200 * Overlap(a, b)
               /\ 200 * Overlap(a, b) < 2 * out * longest + longest
               /\ a = b => out = 100
       /\ (a = CatSatText /\ b = CatText) => out = 67
       /\ (a = CatText /\ b = CatSatText) => out = 67

\* C25 witness: "a cat sat" against "a cat" has scored 67.
C25_Witness == simCall = [a |-> CatSatText, b |-> CatText, out |-> 67]

(* -------------------- gate, broadcast and call claims ------------------ *)
\* C26: a pending gate is not left to its deadline once every player of the
\* room has a non-empty prompt, also when that came about by a departure or
\* before the gate was opened: the deadline of a gate never finds that gate
\* pending in a room all of whose players have one.
C26_NoWaitWhenComplete ==
  [][\A o \in OrchIds, round \in 1..MaxRounds :
       LET rm == room[orch[o].room] IN
       (DeadlineFires(o, round) /\ rm.resolver = Gate(o, round)) =>
         ~(rm.players # << >> /\ EveryPlayerSubmitted(rm))]_vars

\* the notifications orchestration o emits in the step
Emitted(o) == IF orch'[o].sent # orch[o].sent THEN orch'[o].sent ELSE << >>

\* C27: a step of an orchestration whose room is no longer registered emits
\* no notification that reaches a player of a registered room, and changes
\* no registered room.
C27_DeletedRoomIsInert ==
  [][\A o \in OrchIds :
       (orch'[o] # orch[o] /\ orch[o].room \notin Live(rooms)) =>
         /\ \A i \in DOMAIN Emitted(o), r \in Live(rooms) :
              joined[Emitted(o)[i].code] \cap Range(room[r].players) = {}
         /\ \A r \in Live(rooms) : room'[r] = room[r]]_vars

\* C28: the players with an entry in the roundData.scores that
\* 'round-results' publishes are the players the room has when it enters
\* VOTING.
C28_ScoredAreMembers ==
  [][\A o \in OrchIds :
       (Scores(o) /\ orch'[o].pc = "pauseDelay") =>
         {s \in Sockets : room'[orch[o].room].roundData.scores[s] # NoScore}
           = Range(room[orch[o].room].players)]_vars

\* the step takes the image loop of orchestration o forward
LoopStep(o) ==
  /\ orch[o].pc \in {"resumed", "awaitImage"}
  /\ orch'[o].pc \in {"awaitImage", "generated"}
  /\ orch'[o].pc # orch[o].pc \/ orch'[o].idx # orch[o].idx

\* C29: the image loop goes through the snapshot once, in order: it calls
\* generateImageFromPrompt for a player only with that player's stored,
\* non-empty prompt, gives a null image without a call to every player it
\* passes over, who has no prompt, and never comes back to a player, whatever
\* the call returned; a call is made nowhere else.
C29_OneCallPerPrompt ==
  [][\A o \in OrchIds :
       LET ids == orch'[o].playerIds
           data == room[orch[o].room].roundData
           images == room'[orch[o].room].roundData.images
           from == IF orch[o].pc = "awaitImage" THEN orch[o].idx ELSE 0
           to == orch'[o].idx
       IN /\ (orch'[o].pc = "awaitImage" /\ orch[o].pc # "awaitImage") =>
               orch[o].pc = "resumed"
          /\ (orch[o].pc = "awaitImage" /\ orch'[o].idx # orch[o].idx) =>
               orch'[o].pc \in {"awaitImage", "generated"}
          /\ LoopStep(o) =>
               /\ \A i, j \in 1..Len(ids) : ids[i] = ids[j] => i = j
               /\ orch[o].pc = "awaitImage" => ids = orch[o].playerIds
               /\ orch[o].pc = "resumed" =>
                    ids = room[orch[o].room].players
               /\ to > from
               /\ to <= Len(ids) + 1
               /\ \A i \in (from + 1)..(to - 1) :
                    /\ ~Truthy(data.prompts[ids[i]])
                    /\ images[ids[i]] = Null
               /\ (orch'[o].pc = "awaitImage") = (to <= Len(ids))
               /\ to <= Len(ids) => Truthy(data.prompts[ids[to]])]_vars

\* C29 witness: the first player of the snapshot, without a prompt, has a
\* null image and the call for the second player is under way.
C29_Witness ==
  \E o \in OrchIds :
    /\ orch[o].pc = "awaitImage"
    /\ orch[o].idx = 2
    /\ room[orch[o].room].roundData.prompts[orch[o].playerIds[1]] = Undefined
    /\ room[orch[o].room].roundData.images[orch[o].playerIds[1]] = Null

\* the place of a notification in the sequence of its round, or 0
Rank(n) ==
  CASE n.event = "game-state" /\ n.state = SHOWING_IMAGE -> 1
    [] n.event = "original-image" -> 2
    [] n.event = "game-state" /\ n.state = WRITING_PROMPT -> 3
    [] n.event = "game-state" /\ n.state = GENERATING_IMAGES -> 4
    [] n.event = "generated-images" -> 5
    [] n.event = "game-state" /\ n.state = VOTING -> 6
    [] n.event = "round-results" -> 7
    [] OTHER -> 0

\* y is the notification that comes after x in a game of room object rm
Follows(rm, x, y) ==
  \/ /\ x.event = "game-state" /\ x.state = STARTING
     /\ Rank(y) = 1 /\ y.round = 1
  \/ /\ Rank(x) \in 1..6
     /\ Rank(y) = Rank(x) + 1 /\ y.round = x.round
  \/ /\ Rank(x) = 7 /\ x.round < rm.rounds
     /\ Rank(y) = 1 /\ y.round = x.round + 1
  \/ /\ Rank(x) = 7 /\ x.round = rm.rounds
     /\ y.event = "game-state" /\ y.state = GAME_OVER
  \/ /\ x.event = "game-state" /\ x.state = GAME_OVER
     /\ y.event = "game-over"

\* what startGame emits continues, in order, what it has emitted
NoticesInOrder ==
  [][\A o \in OrchIds :
       LET chain == << orch[o].sent[Len(orch[o].sent)] >> \o Emitted(o)
       IN \A i \in 1..(Len(chain) - 1) :
            Follows(room[orch[o].room], chain[i], chain[i + 1])]_vars

\* C30: the notifications of a game come in the order of the rounds and,
\* within a round, SHOWING_IMAGE, original image, WRITING_PROMPT,
\* GENERATING_IMAGES, generated images, VOTING, round results; 'game-over'
\* comes after the results of the last round, nothing comes after it, and a
\* startGame that has ended has emitted it.
C30_NotificationOrder ==
  /\ NoticesInOrder
  /\ [](\A o \in OrchIds :
          /\ orch[o].pc = "starting" =>
               orch[o].sent = << GameState(room[orch[o].room].code, STARTING, 0) >>
          /\ Ended(o) => orch[o].sent[Len(orch[o].sent)].event = "game-over")

(* ----------------------- requests and who sends them ------------------- *)
\* C31: the accepted answer to 'start-game' reaches the requester before
\* the game's first SHOWING_IMAGE notification: when it is given, startGame
\* has emitted nothing after the 'game-state' of STARTING.
C31_AckBeforeFirstRound ==
  [][\A o \in OrchIds :
       (/\ orch'[o] # orch[o]
        /\ reply'.ev = "start-game"
        /\ reply'.success) =>
         orch[o].sent = << GameState(room[orch[o].room].code, STARTING, 0) >>]_vars

\* C32: a 'start-game' request for a room in WAITING from a socket that is
\* not the room's host leaves the room in WAITING and starts no
\* orchestration.
C32_OnlyHostStarts ==
  [][\A s \in Sockets, code \in Codes :
       LET r == getRoom(code) IN
       (/\ StartGame(s, code)
        /\ r # 0
        /\ room[r].state = WAITING
        /\ room[r].host # s)
       => /\ room'[r].state = WAITING
          /\ orch' = orch]_vars

\* C33: a 'submit-prompt' request from a socket that is not a player of the
\* room it names records nothing in the room's roundData.prompts and does
\* not resolve the room's gate.
C33_OnlyMembersSubmit ==
  [][\A s \in Sockets, code \in Codes, p \in PromptTexts :
       LET r == getRoom(code) IN
       (/\ SubmitPrompt(s, code, p)
        /\ r # 0
        /\ ~HasPlayer(room, r, s))
       => /\ room'[r].roundData.prompts = room[r].roundData.prompts
          /\ room'[r].resolver = room[r].resolver
          /\ orch' = orch]_vars

\* C34: every registered room has at most MAX_PLAYERS players, each of
\* them once, whatever createRoom, joinRoom and removePlayer calls were made.
C34_AtMostMaxPlayers ==
  \A r \in Live(rooms) :
    /\ Len(room[r].players) <= MAX_PLAYERS
    /\ Cardinality(Range(room[r].players)) = Len(room[r].players)

\* C34 witness: a registered room holds MAX_PLAYERS players and a connected
\* socket that is in no room has just been refused by a full room.
C34_Witness ==
  /\ reply.ev = "join-room"
  /\ reply.message = "Room is full."
  /\ \E r \in Live(rooms) : Len(room[r].players) = MAX_PLAYERS
  /\ \E s \in connected : RoomsOf(rooms, room, s) = {}
  /\ \A r \in Live(rooms) : Len(room[r].players) \in {0, MAX_PLAYERS}

====
